---- MODULE Spec2Model ----
(***************************************************************************)
(* A model of toil's src/toil/fileStore/fileStore.py: the size-tracked     *)
(* write stream, the deferred functions, the atomically rewritten state    *)
(* file, the sweep over the state of dead jobs, the temp file methods and  *)
(* the global files of a job.                                              *)
(*                                                                         *)
(* The module holds several specifications over one set of variables; each *)
(* one moves only the variables of the part of the file it is about.       *)
(*   SpecStateFile   _StateFile.write / _StateFile._load on one path       *)
(*   SpecLoad        _StateFile._load on an absent, whole or damaged file  *)
(*   SpecStream      writeGlobalFileStream and its WriteWatchingStream     *)
(*   SpecSweep       jobs, their deaths, and the sweep over dead jobs      *)
(*   SpecDeferred    DeferredFunction.create / invoke, direct or reloaded  *)
(*   SpecContext     the open() context, the temp file methods and         *)
(*                   _resolveAbsoluteLocalPath                             *)
(*   SpecPass        importFile / exportFile                               *)
(*   SpecWatch       WriteWatchingStream with any listeners                *)
(*   SpecRead        readGlobalFile by two jobs                            *)
(*   SpecGlobal      global files over the life of a job                   *)
(*   SpecWriters     two processes in _StateFile.write on one path         *)
(*   SpecShutdown    shutdownFileStore on a node with or without caches    *)
(***************************************************************************)
EXTENDS Integers, Sequences, FiniteSets, TLC

VARIABLES
    dir,        \* state file directory: name -> inode (0: no such entry)
    inodes,     \* inode -> content, a sequence of bytes
    wr,         \* the process running _StateFile.write
    rd,         \* the process running _StateFile._load
    installed,  \* history: the mapping of the last write() whose rename happened
    fault,      \* history: how the file of SpecLoad was damaged
    ws,         \* writeGlobalFileStream: the scope, the FileID, the wrapped stream
    written,    \* history: len(data) of every write that succeeded
    calls,      \* history: number of write calls made on the stream
    proc,       \* job -> "running" or "dead": the worker process of the job
    foreign,    \* job -> whether its process belongs to another user
    rec,        \* job -> its state record on the node (jobPID, deferredFunctions)
    tempDir,    \* job -> whether its local temp directory exists
    sw,         \* the process running findAndHandleDeadJobs / shutdown
    log,        \* history: every deferred function invoked, in order
    call,       \* the function and the arguments a job defers, as create gets them
    live,       \* the caller's function and argument objects as they are now
    dfs,        \* process -> the DeferredFunction it holds
    stored,     \* the bytes of the state record holding the DeferredFunction
    results,    \* "direct", process -> what the call returned or raised
    ctx,        \* the file store's context: "Open", "Running" or "Closed"
    tempRoot,   \* localTempDir: whether it exists, and the names in it
    thr,        \* thread -> where it is inside getLocalTempFileName
    handed,     \* history: the paths the temp file methods returned
    resolved,   \* the last _resolveAbsoluteLocalPath call and its result
    passed,     \* the last importFile / exportFile call and its result
    watch,      \* a WriteWatchingStream with the listeners registered on it
    heard,      \* the last write call on it: what it did, in order
    jobStore,   \* job store: file ID -> whether the file is there, and its owner
    task,       \* how far the job and its successors have come
    local,      \* the local files readGlobalFile returned, in order
    files,      \* content of the files: in the job store, the cache, local copies
    filesToDelete, \* self.filesToDelete
    writers,    \* process -> where it is inside its _StateFile.write call
    renamed,    \* history: process -> what the file it renamed held just then
    prior,      \* history: the record at the path before either process wrote
    onDisk,     \* the paths that exist on the node
    shut        \* history: every shutdownFileStore call and the calls it made

varsState == <<dir, inodes, wr, rd, installed, fault>>
varsStream == <<ws, written, calls>>
varsSweep == <<proc, foreign, rec, tempDir, sw, log>>
varsDeferred == <<call, live, dfs, stored, results>>
varsContext == <<ctx, tempRoot, thr, handed, resolved, passed>>
varsWatch == <<watch, heard>>
varsGlobal == <<jobStore, task, local, files, filesToDelete>>
varsWriters == <<writers, renamed, prior>>
varsShutdown == <<onDisk, shut>>
vars == <<varsState, varsStream, varsSweep, varsDeferred, varsContext, varsWatch, varsGlobal, varsWriters, varsShutdown>>
notStateWriters == <<varsStream, varsSweep, varsDeferred, varsContext, varsWatch, varsGlobal, varsShutdown>>
notState == <<varsStream, varsSweep, varsDeferred, varsContext, varsWatch, varsGlobal, varsWriters, varsShutdown>>
notStream == <<varsState, varsSweep, varsDeferred, varsContext, varsWatch, varsGlobal, varsWriters, varsShutdown>>
notSweep == <<varsState, varsStream, varsDeferred, varsContext, varsWatch, varsGlobal, varsWriters, varsShutdown>>
notDeferred == <<varsState, varsStream, varsSweep, varsContext, varsWatch, varsGlobal, varsWriters, varsShutdown>>
notContext == <<varsState, varsStream, varsSweep, varsDeferred, varsWatch, varsGlobal, varsWriters, varsShutdown>>
notWatch == <<varsState, varsStream, varsSweep, varsDeferred, varsContext, varsGlobal, varsWriters, varsShutdown>>
notGlobal == <<varsState, varsStream, varsSweep, varsDeferred, varsContext, varsWatch, varsWriters, varsShutdown>>
notWriters == <<varsState, varsStream, varsSweep, varsDeferred, varsContext, varsWatch, varsGlobal, varsShutdown>>
notShutdown == <<varsState, varsStream, varsSweep, varsDeferred, varsContext, varsWatch, varsGlobal, varsWriters>>

(***************************************************************************)
(* Bounds.                                                                 *)
(***************************************************************************)
MaxVal == 1         \* attribute values of a state dictionary are 0..MaxVal
MaxChunk == 2       \* bytes of one write on the stream are at most this many
MaxWrites == 3      \* write calls on one stream
MaxDeferred == 2    \* deferred functions one job registers
MaxHanded == 3      \* paths the temp file methods hand out in one run
MaxListeners == 2   \* listeners registered on one WriteWatchingStream
MaxReads == 2       \* readGlobalFile calls in one run
MaxShutdowns == 2   \* shutdownFileStore calls on one node
MaxInodes == 3      \* inodes of the file system holding the state file
BufSize == 4        \* bytes the buffered file object hands to the file at a time

Keys == {1, 2}      \* attribute names of a state dictionary (interned)

(***************************************************************************)
(* Python values, tagged.  A dict is a set of <<key, value>> pairs with    *)
(* pairwise different keys.                                                *)
(***************************************************************************)
None == [t |-> "none", v |-> 0]
PyInt(n) == [t |-> "int", v |-> n]
Bytes(b) == [t |-> "bytes", v |-> b]
Tuple(s) == [t |-> "tuple", v |-> s]
Dict(d) == [t |-> "dict", v |-> d]
Global(g) == [t |-> "global", v |-> g]
Mark == [t |-> "mark", v |-> 0]

(***************************************************************************)
(* dill.dump / dill.load: the pickle stream.  dump emits the opcodes of    *)
(* the value followed by STOP; load runs the unpickling machine over the   *)
(* bytes, one opcode at a time, until STOP.                                *)
(***************************************************************************)
Op == [MARK |-> 40, STOP |-> 46, SHORT_BINBYTES |-> 67, BININT1 |-> 75,
       GLOBAL |-> 99, TUPLE |-> 116, SETITEMS |-> 117, EMPTY_DICT |-> 125]

RECURSIVE Save(_)
RECURSIVE SaveAll(_)
RECURSIVE SaveItems(_)
Save(x) ==
    CASE x.t = "int" -> <<Op.BININT1, x.v>>
      [] x.t = "bytes" -> <<Op.SHORT_BINBYTES, Len(x.v)>> \o x.v
      [] x.t = "global" -> <<Op.GLOBAL, x.v>>
      [] x.t = "tuple" -> <<Op.MARK>> \o SaveAll(x.v) \o <<Op.TUPLE>>
      [] x.t = "dict" -> <<Op.EMPTY_DICT, Op.MARK>> \o SaveItems(x.v) \o <<Op.SETITEMS>>

SaveAll(s) ==
    IF s = <<>> THEN <<>> ELSE Save(Head(s)) \o SaveAll(Tail(s))

SaveItems(d) ==
    IF d = {} THEN <<>>
    ELSE LET p == CHOOSE q \in d : TRUE
         IN Save(p[1]) \o Save(p[2]) \o SaveItems(d \ {p})

dumps(x) == Save(x) \o <<Op.STOP>>

Err(e) == [err |-> e, v |-> None]
Ok(x) == [err |-> "none", v |-> x]

RECURSIVE TopMark(_, _)
TopMark(stack, i) ==
    IF i = 0 THEN 0
    ELSE IF stack[i].t = "mark" THEN i ELSE TopMark(stack, i - 1)

Hashable(k) == k.t \in {"int", "bytes", "global", "tuple", "none"}

RECURSIVE SetItems(_, _)
SetItems(d, items) ==
    IF items = <<>> THEN d
    ELSE SetItems({p \in d : p[1] # items[1]} \cup {<<items[1], items[2]>>},
                  SubSeq(items, 3, Len(items)))

RECURSIVE AllHashableKeys(_)
AllHashableKeys(items) ==
    \/ items = <<>>
    \/ Hashable(items[1]) /\ AllHashableKeys(SubSeq(items, 3, Len(items)))

RECURSIVE Run(_, _, _)
Run(b, i, stack) ==
    IF i > Len(b) THEN Err("EOFError")
    ELSE LET op == b[i]
             m == TopMark(stack, Len(stack))
             above == SubSeq(stack, m + 1, Len(stack))
             below == SubSeq(stack, 1, m - 1)
         IN
         CASE op = Op.STOP ->
                IF stack = <<>> THEN Err("UnpicklingError")
                ELSE Ok(stack[Len(stack)])
           [] op = Op.BININT1 ->
                IF i + 1 > Len(b) THEN Err("UnpicklingError")
                ELSE Run(b, i + 2, Append(stack, PyInt(b[i + 1])))
           [] op = Op.SHORT_BINBYTES ->
                IF i + 1 > Len(b) \/ i + 1 + b[i + 1] > Len(b)
                THEN Err("UnpicklingError")
                ELSE Run(b, i + 2 + b[i + 1],
                         Append(stack, Bytes(SubSeq(b, i + 2, i + 1 + b[i + 1]))))
           [] op = Op.GLOBAL ->
                IF i + 1 > Len(b) THEN Err("UnpicklingError")
                ELSE Run(b, i + 2, Append(stack, Global(b[i + 1])))
           [] op = Op.MARK -> Run(b, i + 1, Append(stack, Mark))
           [] op = Op.EMPTY_DICT -> Run(b, i + 1, Append(stack, Dict({})))
           [] op = Op.TUPLE ->
                IF m = 0 THEN Err("UnpicklingError")
                ELSE Run(b, i + 1, Append(below, Tuple(above)))
           [] op = Op.SETITEMS ->
                IF m < 2 \/ Len(above) % 2 # 0 THEN Err("UnpicklingError")
                ELSE IF stack[m - 1].t # "dict" \/ ~AllHashableKeys(above)
                THEN Err("TypeError")
                ELSE Run(b, i + 1,
                         Append(SubSeq(stack, 1, m - 2),
                                Dict(SetItems(stack[m - 1].v, above))))
           [] OTHER -> Err("UnpicklingError")

loads(b) == Run(b, 1, <<>>)

(***************************************************************************)
(* The state of each part of the file store before anything has used it.   *)
(***************************************************************************)
Jobs == {1, 2}      \* the jobs with a state record on the node (and their PIDs)

WsClosed == [scope |-> "none", key |-> 0, size |-> 0, owner |-> 0,
             backing |-> <<>>, closed |-> FALSE, raised |-> FALSE,
             writeListeners |-> <<>>]

IdleStream ==
    /\ ws = WsClosed
    /\ written = <<>>
    /\ calls = 0

IdleState ==
    /\ dir = [n \in {<<"stateFile">>, <<"stateFile", ".tmp">>} |-> 0]
    /\ inodes = [i \in 1..MaxInodes |-> <<>>]
    /\ wr = [pc |-> "idle", obj |-> None, fd |-> 0, pos |-> 0, data |-> <<>>]
    /\ rd = [pc |-> "idle", fd |-> 0, buf |-> <<>>, want |-> None,
             res |-> [err |-> "unset", v |-> None]]
    /\ installed = None
    /\ fault = "none"

NoProbe == [errno |-> "", res |-> ""]
SwIdle == [pc |-> "idle", shutdown |-> FALSE, store |-> "", todo |-> {},
           deadAtStart |-> {}, seen |-> [t \in Jobs |-> NoProbe], cur |-> 0,
           batch |-> <<>>, idx |-> 0, failures |-> <<>>, outcome |-> <<>>]

IdleSweep ==
    /\ proc = [t \in Jobs |-> "dead"]
    /\ foreign = [t \in Jobs |-> FALSE]
    /\ rec = [t \in Jobs |-> [present |-> FALSE, jobPID |-> t, deferredFunctions |-> <<>>]]
    /\ tempDir = [t \in Jobs |-> FALSE]
    /\ sw = SwIdle
    /\ log = <<>>

Processes == {"registering", "recovering"}
NoCall == [function |-> 0, args |-> <<>>, kwargs |-> {}]
NoDF == [function |-> <<>>, args |-> <<>>, kwargs |-> <<>>, name |-> "", module |-> 0]
Unset == [err |-> "unset", v |-> None]

IdleDeferred ==
    /\ call = NoCall
    /\ live = NoCall
    /\ dfs = [p \in Processes |-> NoDF]
    /\ stored = <<>>
    /\ results = [p \in Processes \cup {"direct"} |-> Unset]

Threads == {1, 2}   \* the threads of the job that use its file store
NoPath == <<>>
NotResolved == [filePath |-> NoPath, path |-> NoPath]
NotPassed == [op |-> "", args |-> <<>>, ctx |-> "", calls |-> <<>>,
              storeRes |-> Unset, res |-> Unset]

IdleContext ==
    /\ ctx = "Open"
    /\ tempRoot = [exists |-> TRUE, names |-> {}]
    /\ thr = [t \in Threads |-> [pc |-> "idle", tempFile |-> NoPath]]
    /\ handed = <<>>
    /\ resolved = NotResolved
    /\ passed = NotPassed

NotWritten == [data |-> <<>>, events |-> <<>>, raised |-> "", listeners |-> <<>>,
               before |-> <<>>, after |-> <<>>]

IdleWatch ==
    /\ watch = [writeListeners |-> <<>>, backing |-> 0, counts |-> <<>>, writes |-> 0]
    /\ heard = NotWritten

GlobalFiles == {1, 2, 3}    \* the file IDs the job store hands out
FileNodes ==
    {<<"store", k>> : k \in GlobalFiles} \cup {<<"cache", k>> : k \in GlobalFiles}
    \cup {<<"copy", i>> : i \in 1..MaxReads}
NoFile == [present |-> FALSE, owner |-> 0, asked |-> "", deleted |-> FALSE]

\* self.filesToDelete = set()
FilesToDeleteInit == {}

IdleGlobal ==
    /\ jobStore = [k \in GlobalFiles |-> NoFile]
    /\ task = "none"
    /\ local = <<>>
    /\ files = [n \in FileNodes |-> "absent"]
    /\ filesToDelete = FilesToDeleteInit

Writers == {1, 2}   \* the processes that rewrite one state file
NotRenamed == [done |-> FALSE, held |-> <<>>]

IdleWriters ==
    /\ writers = [p \in Writers |->
                    [pc |-> "idle", obj |-> None, fd |-> 0, pos |-> 0, data |-> <<>>]]
    /\ renamed = [p \in Writers |-> NotRenamed]
    /\ prior = None

IdleShutdown ==
    /\ onDisk = {}
    /\ shut = <<>>

(***************************************************************************)
(* WriteWatchingStream and FileStore.writeGlobalFileStream.                *)
(***************************************************************************)
RECURSIVE Sum(_)
Sum(s) == IF s = <<>> THEN 0 ELSE Head(s) + Sum(Tail(s))

\* the data of one write call: byte strings of up to MaxChunk bytes
Chunks == UNION {[1..n -> {0, 1}] : n \in 0..MaxChunk}

HandleCountsCalls(size, numBytes) == size + 1
HandleAssigns(size, numBytes) == numBytes
\* def handle(numBytes): fileID.size += numBytes
Handle(size, numBytes) == size + numBytes

\* for listener in self.writeListeners: listener(len(data))
RECURSIVE Notify(_, _, _)
Notify(s, listeners, n) ==
    IF listeners = <<>> THEN s
    ELSE Notify(IF Head(listeners) = "handle"
                THEN [s EXCEPT !.size = Handle(@, n)] ELSE s,
                Tail(listeners), n)

\* WriteWatchingStream.write(data), the backing stream taking the data (ok)
\* or raising after it took the first part bytes of it
WwsWrite(s, data, ok, part) ==
    IF s.closed THEN [s EXCEPT !.raised = TRUE]
    ELSE IF ~ok
    THEN [s EXCEPT !.backing = @ \o SubSeq(data, 1, part), !.raised = TRUE]
    ELSE Notify([s EXCEPT !.backing = @ \o data, !.raised = FALSE],
                s.writeListeners, Len(data))

\* WriteWatchingStream.writelines(datas): the first fail - 1 writes succeed,
\* write number fail (if there is one) raises and ends the loop
RECURSIVE WwsWritelines(_, _, _, _)
WwsWritelines(s, datas, fail, part) ==
    IF datas = <<>> THEN [s EXCEPT !.raised = FALSE]
    ELSE LET t == WwsWrite(s, Head(datas), fail # 1, part)
         IN IF t.raised THEN t
            ELSE WwsWritelines(t, Tail(datas), fail - 1, part)

JobStoreID == 1     \* self.jobGraph.jobStoreID

CleanupOwnerAlwaysJob(cleanup) == JobStoreID
\* None if not cleanup else self.jobGraph.jobStoreID (None is 0 here)
CleanupOwner(cleanup) == IF ~cleanup THEN 0 ELSE JobStoreID

\* with self.writeGlobalFileStream(cleanup) as (wrappedStream, fileID):
\* the job store hands out the backing stream and the new file's ID
StreamEnter(cleanup, fileStoreID) ==
    /\ ws.scope = "none"
    /\ ws' = [WsClosed EXCEPT !.scope = "open", !.key = fileStoreID, !.size = 0,
                              !.owner = CleanupOwner(cleanup),
                              !.writeListeners = <<"handle">>]
    /\ written' = <<>>
    /\ calls' = 0
    /\ UNCHANGED notStream

\* wrappedStream.write(data)
StreamWrite(data) ==
    /\ ws.scope = "open"
    /\ calls < MaxWrites
    /\ \E ok \in BOOLEAN, part \in 0..Len(data) :
         LET t == WwsWrite(ws, data, ok, part)
         IN /\ ws' = t
            /\ written' = IF t.raised THEN written ELSE Append(written, Len(data))
    /\ calls' = calls + 1
    /\ UNCHANGED notStream

\* wrappedStream.writelines(datas)
StreamWritelines(datas) ==
    /\ ws.scope = "open"
    /\ calls + Len(datas) <= MaxWrites
    /\ \E fail \in (IF ws.closed /\ datas # <<>> THEN {1} ELSE 0..Len(datas)) :
        \E part \in 0..(IF fail = 0 THEN 0 ELSE Len(datas[fail])) :
         LET t == WwsWritelines(ws, datas, fail, part)
             done == IF fail = 0 THEN Len(datas) ELSE fail - 1
         IN /\ ws' = t
            /\ written' = written \o [i \in 1..done |-> Len(datas[i])]
            /\ calls' = calls + (IF fail = 0 THEN Len(datas) ELSE fail)
    /\ UNCHANGED notStream

\* wrappedStream.flush()
StreamFlush ==
    /\ ws.scope = "open"
    /\ ws' = [ws EXCEPT !.raised = ws.closed]
    /\ UNCHANGED <<written, calls>>
    /\ UNCHANGED notStream

\* wrappedStream.close(), which the caller should not call
StreamClose ==
    /\ ws.scope = "open"
    /\ ws' = [ws EXCEPT !.closed = TRUE, !.raised = FALSE]
    /\ UNCHANGED <<written, calls>>
    /\ UNCHANGED notStream

\* the with block is left, normally or by an exception of the body
StreamExit ==
    /\ ws.scope = "open"
    /\ ws' = [ws EXCEPT !.scope = "exited", !.closed = TRUE]
    /\ UNCHANGED <<written, calls>>
    /\ UNCHANGED notStream

\* the caller drops the stream and the FileID
StreamForget ==
    /\ ws.scope = "exited"
    /\ ws' = WsClosed
    /\ written' = <<>>
    /\ calls' = 0
    /\ UNCHANGED notStream

InitStream ==
    /\ IdleStream
    /\ IdleState
    /\ IdleDeferred
    /\ IdleSweep
    /\ IdleDeferred
    /\ IdleContext
    /\ IdleWatch
    /\ IdleGlobal
    /\ IdleWriters
    /\ IdleShutdown

NextStream ==
    \/ \E cleanup \in BOOLEAN, fileStoreID \in 1..2 : StreamEnter(cleanup, fileStoreID)
    \/ \E data \in Chunks : StreamWrite(data)
    \/ \E datas \in UNION {[1..n -> Chunks] : n \in 0..2} : StreamWritelines(datas)
    \/ StreamFlush
    \/ StreamClose
    \/ StreamExit
    \/ StreamForget

SpecStream == InitStream /\ [][NextStream]_vars

\* C1: the FileID's size is 0 when the stream is yielded and, after every
\* write and writelines call and at scope exit, the sum of len(data) over the
\* writes that succeeded; with no failed write it is the number of bytes the
\* backing stream received, whatever the chunking.
C1_SizeIsSumOfWrites ==
    ws.scope # "none" =>
        /\ ws.size = Sum(written)
        /\ (calls = Len(written)) => ws.size = Len(ws.backing)

\* the scope was left after three successful writes of different lengths,
\* one of them empty
C1_Witness ==
    /\ ws.scope = "exited"
    /\ Len(written) = 3
    /\ {written[i] : i \in 1..3} = {0, 1, 2}
    /\ ws.size = 3

\* C20 as stated: a FileID, once constructed, keeps its key and its size,
\* so no FileID is seen with one key and two sizes, also while the scope of
\* writeGlobalFileStream is open and written to.
C20_Original ==
    [][(ws.scope # "none" /\ ws'.scope # "none")
          => (ws'.key = ws.key /\ ws'.size = ws.size)]_vars

\* C20, amended: a FileID keeps its key; the size of the FileID yielded by
\* writeGlobalFileStream is changed in place, only by a write that succeeded
\* while the scope is open, which adds len(data) to it; it never shrinks,
\* and after the scope is left it no longer changes.
C20_KeyFixedSizeGrows ==
    [][(ws.scope # "none" /\ ws'.scope # "none")
          => /\ ws'.key = ws.key
             /\ ws'.size >= ws.size
             /\ ws'.size - ws.size = Sum(written') - Sum(written)
             /\ (ws'.size # ws.size) => (ws.scope = "open" /\ ~ws.closed)]_vars

\* the FileID of key 2, made with size 0, has size 2 after one write, the
\* scope still open
C20_Witness ==
    /\ ws.scope = "open"
    /\ ws.key = 2
    /\ written = <<2>>
    /\ ws.size = 2

(***************************************************************************)
(* Deferred functions of dead jobs: FileStore._pidExists,                   *)
(* FileStore._runDeferredFunctions, and the sweep over the state records    *)
(* (findAndHandleDeadJobs, reached from shutdownFileStore through the       *)
(* shutdown of the file store in use).                                      *)
(***************************************************************************)
FunctionNames == {"f", "g"}     \* function.__name__ of the deferred functions

\* os.kill(pid, 0): no error, or the errno of the OSError it raises
OsKill(pid) ==
    IF proc[pid] = "dead" THEN "ESRCH"
    ELSE IF foreign[pid] THEN "EPERM" ELSE "OK"

PidExistsDeadOnAnyError(pid, errno) ==
    IF errno = "OK" THEN "True" ELSE "False"
\* _pidExists(pid), os.kill(pid, 0) ending with errno: what it returns, or
\* the exception that leaves it
PidExists(pid, errno) ==
    IF ~(pid > 0) THEN "AssertionError"
    ELSE IF errno = "OK" THEN "True"
    ELSE IF errno = "ESRCH" THEN "False"
    ELSE "OSError"

RunIterationTryAroundLoop(b, raised) ==
    IF raised
    THEN [b EXCEPT !.idx = Len(b.batch) + 1, !.outcome = Append(@, raised),
                   !.failures = Append(@, b.batch[b.idx])]
    ELSE [b EXCEPT !.idx = @ + 1, !.outcome = Append(@, raised)]
RunIterationNoCatch(b, raised) ==
    IF raised THEN [b EXCEPT !.pc = "propagated", !.outcome = Append(@, raised)]
    ELSE [b EXCEPT !.idx = @ + 1, !.outcome = Append(@, raised)]
RunIterationNamesAll(b, raised) ==
    [b EXCEPT !.idx = @ + 1, !.outcome = Append(@, raised),
              !.failures = Append(@, b.batch[b.idx])]
\* one iteration of the loop of _runDeferredFunctions: deferredFunction.invoke()
\* returns or raises; what is raised is caught and the name is recorded
RunIteration(b, raised) ==
    [b EXCEPT !.idx = @ + 1,
              !.outcome = Append(@, raised),
              !.failures = IF raised THEN Append(@, b.batch[b.idx]) ELSE @]

\* a running job registers a deferred function: it goes into its state record
RegisterDeferredFunction(t, name) ==
    /\ proc[t] = "running"
    /\ rec[t].present
    /\ Len(rec[t].deferredFunctions) < MaxDeferred
    /\ rec' = [rec EXCEPT ![t].deferredFunctions = Append(@, name)]
    /\ UNCHANGED <<proc, foreign, tempDir, sw, log>>
    /\ UNCHANGED notSweep

\* the worker process of a job dies before the job is done
JobDies(t) ==
    /\ proc[t] = "running"
    /\ proc' = [proc EXCEPT ![t] = "dead"]
    /\ UNCHANGED <<foreign, rec, tempDir, sw, log>>
    /\ UNCHANGED notSweep

SweepBegin(isShutdown, store) ==
    /\ sw.pc = "idle"
    /\ sw' = [SwIdle EXCEPT !.pc = "scan", !.shutdown = isShutdown, !.store = store,
                            !.todo = {t \in Jobs : rec[t].present},
                            !.deadAtStart = {t \in Jobs : rec[t].present /\ proc[t] = "dead"}]
    /\ UNCHANGED <<proc, foreign, rec, tempDir, log>>
    /\ UNCHANGED notSweep

\* a worker calls findAndHandleDeadJobs(nodeInfo)
FindAndHandleDeadJobs == SweepBegin(FALSE, "")

\* shutdownFileStore(workflowDir, workflowID): the shutdown of the caching
\* file store when the cache directory exists, else of the non-caching one;
\* either runs the sweep with batchSystemShutdown set
ShutdownFileStore(cacheDirExists) ==
    SweepBegin(TRUE, IF cacheDirExists THEN "CachingFileStore" ELSE "NonCachingFileStore")

\* the sweep looks at the next state record: is its process still there?
\* A probe that raises leaves the record alone and the sweep goes on
SweepProbe(t) ==
    /\ sw.pc = "scan"
    /\ t \in sw.todo
    /\ LET errno == OsKill(rec[t].jobPID)
           res == PidExists(rec[t].jobPID, errno)
       IN sw' = IF res = "False"
                THEN [sw EXCEPT !.pc = "run", !.cur = t, !.idx = 1,
                                !.batch = rec[t].deferredFunctions,
                                !.failures = <<>>, !.outcome = <<>>,
                                !.seen[t] = [errno |-> errno, res |-> res]]
                ELSE [sw EXCEPT !.todo = @ \ {t},
                                !.seen[t] = [errno |-> errno, res |-> res]]
    /\ UNCHANGED <<proc, foreign, rec, tempDir, log>>
    /\ UNCHANGED notSweep

\* _runDeferredFunctions(deferredFunctions): the next function is invoked
RunDeferredInvoke ==
    /\ sw.pc = "run"
    /\ sw.idx <= Len(sw.batch)
    /\ \E raised \in BOOLEAN :
        /\ sw' = RunIteration(sw, raised)
        /\ log' = Append(log, [job |-> sw.cur, idx |-> sw.idx])
    /\ UNCHANGED <<proc, foreign, rec, tempDir>>
    /\ UNCHANGED notSweep

\* _runDeferredFunctions returns failures
RunDeferredReturn ==
    /\ sw.pc = "run"
    /\ sw.idx > Len(sw.batch)
    /\ sw' = [sw EXCEPT !.pc = "cleanup"]
    /\ UNCHANGED <<proc, foreign, rec, tempDir, log>>
    /\ UNCHANGED notSweep

\* the sweep removes the dead job's local temp directory and state record
SweepCleanup ==
    /\ sw.pc = "cleanup"
    /\ tempDir' = [tempDir EXCEPT ![sw.cur] = FALSE]
    /\ rec' = [rec EXCEPT ![sw.cur].present = FALSE]
    /\ sw' = [sw EXCEPT !.pc = "scan", !.todo = @ \ {sw.cur}, !.cur = 0, !.idx = 0,
                         !.batch = <<>>, !.failures = <<>>, !.outcome = <<>>]
    /\ UNCHANGED <<proc, foreign, log>>
    /\ UNCHANGED notSweep

\* no state record is left to look at: the sweep is over
SweepEnd ==
    /\ sw.pc = "scan"
    /\ sw.todo = {}
    /\ sw' = [sw EXCEPT !.pc = "ended"]
    /\ UNCHANGED <<proc, foreign, rec, tempDir, log>>
    /\ UNCHANGED notSweep

\* findAndHandleDeadJobs / shutdown returns to its caller
SweepReturn ==
    /\ sw.pc = "ended"
    /\ sw' = SwIdle
    /\ UNCHANGED <<proc, foreign, rec, tempDir, log>>
    /\ UNCHANGED notSweep

InitSweep ==
    /\ proc = [t \in Jobs |-> "running"]
    /\ foreign \in [Jobs -> BOOLEAN]
    /\ rec = [t \in Jobs |-> [present |-> TRUE, jobPID |-> t, deferredFunctions |-> <<>>]]
    /\ tempDir = [t \in Jobs |-> TRUE]
    /\ sw = SwIdle
    /\ log = <<>>
    /\ IdleStream
    /\ IdleState
    /\ IdleDeferred
    /\ IdleContext
    /\ IdleWatch
    /\ IdleGlobal
    /\ IdleWriters
    /\ IdleShutdown

NextSweep ==
    \/ \E t \in Jobs, name \in FunctionNames : RegisterDeferredFunction(t, name)
    \/ \E t \in Jobs : JobDies(t)
    \/ FindAndHandleDeadJobs
    \/ \E cacheDirExists \in BOOLEAN : ShutdownFileStore(cacheDirExists)
    \/ \E t \in Jobs : SweepProbe(t)
    \/ RunDeferredInvoke
    \/ RunDeferredReturn
    \/ SweepCleanup
    \/ SweepEnd
    \/ SweepReturn

SpecSweep == InitSweep /\ [][NextSweep]_vars


LogOfIn(l, t) == SelectSeq(l, LAMBDA e : e.job = t)
LogOf(t) == LogOfIn(log, t)

\* C3: the deferred functions of a job are only ever invoked in registration
\* order and none twice, over any number of sweeps and shutdowns; a state
\* record is removed only for a dead job, after each of its deferred functions
\* was invoked exactly once, together with its temp directory; and a sweep
\* that ends has removed every record whose job was dead when it began.
C3_DeadJobsSwept ==
    /\ \A t \in Jobs :
        /\ \A i \in 1..Len(LogOf(t)) : LogOf(t)[i].idx = i
        /\ Len(LogOf(t)) <= Len(rec[t].deferredFunctions)
        /\ ~rec[t].present =>
              /\ proc[t] = "dead"
              /\ Len(LogOf(t)) = Len(rec[t].deferredFunctions)
              /\ ~tempDir[t]
    /\ sw.pc = "ended" => \A t \in sw.deadAtStart : ~rec[t].present

\* a shutdown has run to its end over a node where an earlier sweep had
\* already handled a dead job with MaxDeferred deferred functions
C3_Witness ==
    /\ sw.pc = "ended"
    /\ sw.shutdown
    /\ \E t \in Jobs :
        /\ ~rec[t].present
        /\ t \notin sw.deadAtStart
        /\ Len(LogOf(t)) = MaxDeferred
        /\ ~tempDir[t]

\* C4: no step of the sweep changes the state record or the temp directory of
\* a job whose process is alive, or invokes one of its deferred functions.
C4_LiveJobUntouched ==
    [][(sw' # sw) =>
        \A t \in Jobs : proc[t] = "running" =>
            /\ rec'[t] = rec[t]
            /\ tempDir'[t] = tempDir[t]
            /\ LogOfIn(log', t) = LogOf(t)]_vars

\* a sweep has ended that handled a dead job and probed a live one, whose
\* process belongs to another user and which has deferred functions registered
C4_Witness ==
    /\ sw.pc = "ended"
    /\ sw.deadAtStart # {}
    /\ \E t \in Jobs :
        /\ proc[t] = "running"
        /\ foreign[t]
        /\ sw.seen[t].errno = "EPERM"
        /\ rec[t].present /\ tempDir[t]
        /\ rec[t].deferredFunctions # <<>>
        /\ LogOf(t) = <<>>

\* C5: _runDeferredFunctions invokes the functions of the batch one after the
\* other in order, each once, whichever of them raise, and returns: no
\* exception leaves it.
C5_BatchInvokesAll ==
    /\ sw.pc # "propagated"
    /\ sw.pc \in {"run", "cleanup"} =>
        /\ Len(sw.outcome) = sw.idx - 1
        /\ Len(log) >= Len(sw.outcome)
        /\ \A i \in 1..Len(sw.outcome) :
              log[Len(log) - Len(sw.outcome) + i] = [job |-> sw.cur, idx |-> i]
    /\ sw.pc = "cleanup" => Len(sw.outcome) = Len(sw.batch)

\* a batch has returned whose first function raised and whose last one was
\* still invoked
C5_Witness ==
    /\ sw.pc = "cleanup"
    /\ Len(sw.batch) = MaxDeferred
    /\ sw.outcome[1]
    /\ log[Len(log)] = [job |-> sw.cur, idx |-> MaxDeferred]

\* the names of the functions of batch whose invocation raised, in order
RECURSIVE FailedNames(_, _)
FailedNames(batch, outcome) ==
    IF outcome = <<>> THEN <<>>
    ELSE (IF Head(outcome) THEN <<Head(batch)>> ELSE <<>>)
            \o FailedNames(Tail(batch), Tail(outcome))

Range(f) == {f[i] : i \in DOMAIN f}

\* C6 as stated: the returned list is the names of the functions that raised,
\* in order, and holds no name of a function that completed.
C6_Original ==
    sw.pc = "cleanup" =>
        /\ sw.failures = FailedNames(sw.batch, sw.outcome)
        /\ \A i \in 1..Len(sw.batch) :
              ~sw.outcome[i] => sw.batch[i] \notin Range(sw.failures)

\* C6 amended: the returned list has one entry per function that raised, its
\* name, in invocation order, and no entry for a function that completed.
C6_FailuresNameTheFailed ==
    sw.pc \in {"run", "cleanup"} =>
        sw.failures = FailedNames(sw.batch, sw.outcome)

\* a batch of two functions of different names has returned, of which only
\* the second raised
C6_Witness ==
    /\ sw.pc = "cleanup"
    /\ Len(sw.batch) = 2
    /\ sw.batch[1] # sw.batch[2]
    /\ sw.outcome = <<FALSE, TRUE>>
    /\ sw.failures = <<sw.batch[2]>>

\* C7 as stated: _pidExists reports a process dead exactly when the signal
\* fails with ESRCH, and alive when it succeeds or fails with another error.
C7_AliveUnlessNoSuchProcess ==
    \A t \in Jobs : sw.seen[t].errno # "" =>
        /\ (sw.seen[t].res = "False") <=> (sw.seen[t].errno = "ESRCH")
        /\ sw.seen[t].errno # "ESRCH" => sw.seen[t].res = "True"

(***************************************************************************)
(* _StateFile: an object whose __dict__ is the state dictionary it was     *)
(* built from.                                                             *)
(***************************************************************************)
StateFileInit(stateDict) ==
    IF stateDict.t = "dict" THEN Ok(stateDict) ELSE Err("AssertionError")

\* the state dictionaries of the model: some of Keys, each with a value
StateDicts ==
    {Dict({<<PyInt(k), PyInt(f[k])>> : k \in K}) :
        f \in [Keys -> 0..MaxVal], K \in SUBSET Keys}

(***************************************************************************)
(* The file system under the state file: open(name, 'wb') creates the      *)
(* entry or truncates its inode, a write goes to the inode at the          *)
(* descriptor's offset, os.rename moves the entry over the target.         *)
(***************************************************************************)
TmpNameInPlace(fileName) == fileName
\* fileName + '.tmp'
TmpName(fileName) == fileName \o <<".tmp">>

Path == <<"stateFile">>
Names == {Path, Path \o <<".tmp">>}

InUse == {dir[n] : n \in Names} \cup {wr.fd, rd.fd}
FreeInode == CHOOSE i \in 1..MaxInodes : i \notin InUse
Collect(ino, d, fds) ==
    [i \in 1..MaxInodes |->
        IF i \in {d[n] : n \in Names} \cup fds THEN ino[i] ELSE <<>>]

WriteAt(content, pos, chunk) ==
    [i \in 1..(IF Len(content) > pos + Len(chunk) THEN Len(content)
               ELSE pos + Len(chunk)) |->
        IF i > pos /\ i <= pos + Len(chunk) THEN chunk[i - pos]
        ELSE IF i <= Len(content) THEN content[i] ELSE 0]

WrIdle == [pc |-> "idle", obj |-> None, fd |-> 0, pos |-> 0, data |-> <<>>]
RdIdle == [pc |-> "idle", fd |-> 0, buf |-> <<>>, want |-> None, res |-> Err("unset")]

(***************************************************************************)
(* _StateFile.write(fileName)                                              *)
(***************************************************************************)
\* a process holding the _StateFile built from m calls write
WrCall(m) ==
    /\ wr.pc = "idle"
    /\ wr' = [WrIdle EXCEPT !.pc = "open", !.obj = m]
    /\ UNCHANGED <<dir, inodes, rd, installed, fault>>
    /\ UNCHANGED notState

\* with open(fileName + '.tmp', 'wb') as fH
WrOpen ==
    /\ wr.pc = "open"
    /\ LET n == TmpName(Path)
           i == IF dir[n] # 0 THEN dir[n] ELSE FreeInode
       IN /\ dir' = [dir EXCEPT ![n] = i]
          /\ inodes' = [inodes EXCEPT ![i] = <<>>]
          /\ wr' = [wr EXCEPT !.pc = "dump", !.fd = i, !.pos = 0,
                              !.data = dumps(wr.obj)]
    /\ UNCHANGED <<rd, installed, fault>>
    /\ UNCHANGED notState

\* dill.dump(self.__dict__, fH): the bytes reach the file a buffer at a time
WrDump ==
    /\ wr.pc = "dump"
    /\ wr.pos < Len(wr.data)
    /\ LET k == IF Len(wr.data) - wr.pos > BufSize THEN BufSize
                ELSE Len(wr.data) - wr.pos
       IN /\ inodes' = [inodes EXCEPT ![wr.fd] =
                          WriteAt(@, wr.pos, SubSeq(wr.data, wr.pos + 1, wr.pos + k))]
          /\ wr' = [wr EXCEPT !.pos = wr.pos + k]
    /\ UNCHANGED <<dir, rd, installed, fault>>
    /\ UNCHANGED notState

\* the with block ends: the file is closed
WrClose ==
    /\ wr.pc = "dump"
    /\ wr.pos = Len(wr.data)
    /\ wr' = [wr EXCEPT !.pc = "rename", !.fd = 0]
    /\ inodes' = Collect(inodes, dir, {rd.fd})
    /\ UNCHANGED <<dir, rd, installed, fault>>
    /\ UNCHANGED notState

WrRenameSkipped ==
    /\ wr.pc = "rename"
    /\ wr' = [wr EXCEPT !.pc = "returned"]
    /\ installed' = wr.obj
    /\ UNCHANGED <<dir, inodes, rd, fault>>
    /\ UNCHANGED notState
\* os.rename(fileName + '.tmp', fileName)
WrRename ==
    /\ wr.pc = "rename"
    /\ LET n == TmpName(Path)
       IN IF dir[n] = 0
          THEN /\ wr' = [wr EXCEPT !.pc = "raised"]
               /\ UNCHANGED <<dir, inodes, installed>>
          ELSE LET d == IF n = Path THEN dir
                        ELSE [dir EXCEPT ![Path] = dir[n], ![n] = 0]
               IN /\ dir' = d
                  /\ inodes' = Collect(inodes, d, {rd.fd})
                  /\ installed' = wr.obj
                  /\ wr' = [wr EXCEPT !.pc = "returned"]
    /\ UNCHANGED <<rd, fault>>
    /\ UNCHANGED notState

\* write has returned (or raised) and the caller goes on
WrReturn ==
    /\ wr.pc \in {"returned", "raised"}
    /\ wr' = WrIdle
    /\ UNCHANGED <<dir, inodes, rd, installed, fault>>
    /\ UNCHANGED notState

\* the writing process is killed, at any point of write
WrKill ==
    /\ wr.pc \in {"open", "dump", "rename"}
    /\ wr' = WrIdle
    /\ inodes' = Collect(inodes, dir, {rd.fd})
    /\ UNCHANGED <<dir, rd, installed, fault>>
    /\ UNCHANGED notState

(***************************************************************************)
(* _StateFile._load(fileName)                                              *)
(***************************************************************************)
LoadDefault(b) ==
    LET r == loads(b)
    IN IF r.err = "none" THEN StateFileInit(r.v) ELSE Ok(Dict({}))
\* infoDict = dill.load(fH); return cls(infoDict)
LoadBytes(b) ==
    LET r == loads(b)
    IN IF r.err = "none" THEN StateFileInit(r.v) ELSE r

\* with open(fileName, 'rb') as fH
RdOpen ==
    /\ rd.pc = "idle"
    /\ IF dir[Path] = 0
       THEN rd' = [RdIdle EXCEPT !.pc = "done", !.want = installed,
                                 !.res = Err("IOError")]
       ELSE rd' = [RdIdle EXCEPT !.pc = "read", !.fd = dir[Path],
                                 !.want = installed]
    /\ UNCHANGED <<dir, inodes, wr, installed, fault>>
    /\ UNCHANGED notState

\* dill.load reads what the file holds past what it has read, to the end
RdRead ==
    /\ rd.pc = "read"
    /\ LET c == inodes[rd.fd]
       IN IF Len(c) > Len(rd.buf)
          THEN /\ rd' = [rd EXCEPT !.buf = @ \o SubSeq(c, Len(@) + 1, Len(c))]
               /\ UNCHANGED inodes
          ELSE /\ rd' = [rd EXCEPT !.pc = "done", !.fd = 0, !.res = LoadBytes(rd.buf)]
               /\ inodes' = Collect(inodes, dir, {wr.fd})
    /\ UNCHANGED <<dir, wr, installed, fault>>
    /\ UNCHANGED notState

\* _load has returned or raised and the caller goes on
RdReturn ==
    /\ rd.pc = "done"
    /\ rd' = RdIdle
    /\ UNCHANGED <<dir, inodes, wr, installed, fault>>
    /\ UNCHANGED notState

(***************************************************************************)
(* SpecStateFile: one process at a time rewrites the state file, and may   *)
(* be killed; another loads it.                                            *)
(***************************************************************************)
InitStateFile ==
    /\ installed \in StateDicts \cup {None}
    /\ dir = [n \in Names |-> IF n = Path /\ installed # None THEN 1 ELSE 0]
    /\ inodes = [i \in 1..MaxInodes |->
                    IF i = 1 /\ installed # None THEN dumps(installed) ELSE <<>>]
    /\ wr = WrIdle
    /\ rd = RdIdle
    /\ fault = "none"
    /\ IdleStream
    /\ IdleSweep
    /\ IdleDeferred
    /\ IdleContext
    /\ IdleWatch
    /\ IdleGlobal
    /\ IdleWriters
    /\ IdleShutdown

NextStateFile ==
    \/ \E m \in StateDicts : WrCall(m)
    \/ WrOpen
    \/ WrDump
    \/ WrClose
    \/ WrRename
    \/ WrReturn
    \/ WrKill
    \/ RdOpen
    \/ RdRead
    \/ RdReturn

SpecStateFile == InitStateFile /\ [][NextStateFile]_vars

(***************************************************************************)
(* Two processes in _StateFile.write on one path, with no lock around the  *)
(* calls: both use the one name fileName + '.tmp'.                         *)
(***************************************************************************)
OpenInodes(d, w) == {d[n] : n \in Names} \cup {w[p].fd : p \in Writers}
FreshInode == CHOOSE i \in 1..MaxInodes : i \notin OpenInodes(dir, writers)
Reclaim(ino, d, w) ==
    [i \in 1..MaxInodes |-> IF i \in OpenInodes(d, w) THEN ino[i] ELSE <<>>]

\* process p, holding the _StateFile built from m, calls write(fileName)
WriteCall(p, m) ==
    /\ writers[p].pc = "idle"
    /\ writers' = [writers EXCEPT ![p] = [WrIdle EXCEPT !.pc = "open", !.obj = m]]
    /\ UNCHANGED <<dir, inodes, installed, renamed, prior>>
    /\ UNCHANGED <<wr, rd, fault>>
    /\ UNCHANGED notStateWriters

\* with open(fileName + '.tmp', 'wb') as fH: an entry that is there keeps
\* its inode and loses its content
WriteOpen(p) ==
    /\ writers[p].pc = "open"
    /\ LET n == TmpName(Path)
           i == IF dir[n] # 0 THEN dir[n] ELSE FreshInode
       IN /\ dir' = [dir EXCEPT ![n] = i]
          /\ inodes' = [inodes EXCEPT ![i] = <<>>]
          /\ writers' = [writers EXCEPT ![p].pc = "dump", ![p].fd = i, ![p].pos = 0,
                                        ![p].data = dumps(writers[p].obj)]
    /\ UNCHANGED <<installed, renamed, prior>>
    /\ UNCHANGED <<wr, rd, fault>>
    /\ UNCHANGED notStateWriters

\* dill.dump(self.__dict__, fH): the bytes reach the file a buffer at a
\* time, at the offset of this process's descriptor
WriteDump(p) ==
    /\ writers[p].pc = "dump"
    /\ writers[p].pos < Len(writers[p].data)
    /\ LET w == writers[p]
           k == IF Len(w.data) - w.pos > BufSize THEN BufSize ELSE Len(w.data) - w.pos
       IN /\ inodes' = [inodes EXCEPT ![w.fd] =
                          WriteAt(@, w.pos, SubSeq(w.data, w.pos + 1, w.pos + k))]
          /\ writers' = [writers EXCEPT ![p].pos = w.pos + k]
    /\ UNCHANGED <<dir, installed, renamed, prior>>
    /\ UNCHANGED <<wr, rd, fault>>
    /\ UNCHANGED notStateWriters

\* the with block ends: the file is closed
WriteClose(p) ==
    /\ writers[p].pc = "dump"
    /\ writers[p].pos = Len(writers[p].data)
    /\ LET w == [writers EXCEPT ![p].pc = "rename", ![p].fd = 0]
       IN /\ writers' = w
          /\ inodes' = Reclaim(inodes, dir, w)
    /\ UNCHANGED <<dir, installed, renamed, prior>>
    /\ UNCHANGED <<wr, rd, fault>>
    /\ UNCHANGED notStateWriters

\* os.rename(fileName + '.tmp', fileName): OSError when the other process
\* has renamed the entry away
WriteRename(p) ==
    /\ writers[p].pc = "rename"
    /\ LET n == TmpName(Path)
       IN IF dir[n] = 0
          THEN /\ writers' = [writers EXCEPT ![p].pc = "raised"]
               /\ UNCHANGED <<dir, inodes, installed, renamed>>
          ELSE LET d == [dir EXCEPT ![Path] = dir[n], ![n] = 0]
               IN /\ dir' = d
                  /\ inodes' = Reclaim(inodes, d, writers)
                  /\ installed' = writers[p].obj
                  /\ renamed' = [renamed EXCEPT ![p] =
                                    [done |-> TRUE, held |-> inodes[dir[n]]]]
                  /\ writers' = [writers EXCEPT ![p].pc = "returned"]
    /\ UNCHANGED prior
    /\ UNCHANGED <<wr, rd, fault>>
    /\ UNCHANGED notStateWriters

InitWriters ==
    /\ prior \in StateDicts \cup {None}
    /\ installed = prior
    /\ dir = [n \in Names |-> IF n = Path /\ prior # None THEN 1 ELSE 0]
    /\ inodes = [i \in 1..MaxInodes |->
                    IF i = 1 /\ prior # None THEN dumps(prior) ELSE <<>>]
    /\ writers = [p \in Writers |-> WrIdle]
    /\ renamed = [p \in Writers |-> NotRenamed]
    /\ wr = WrIdle
    /\ rd = RdIdle
    /\ fault = "none"
    /\ IdleStream
    /\ IdleSweep
    /\ IdleDeferred
    /\ IdleContext
    /\ IdleWatch
    /\ IdleGlobal
    /\ IdleShutdown

NextWriters ==
    \/ \E p \in Writers, m \in StateDicts : WriteCall(p, m)
    \/ \E p \in Writers : WriteOpen(p)
    \/ \E p \in Writers : WriteDump(p)
    \/ \E p \in Writers : WriteClose(p)
    \/ \E p \in Writers : WriteRename(p)

SpecWriters == InitWriters /\ [][NextWriters]_vars

\* the records of the write calls made so far, and the one there before them
Records ==
    ({prior} \cup {writers[p].obj : p \in {q \in Writers : writers[q].pc # "idle"}})
        \ {None}
\* a load of these bytes gives record m, whole
Holds(b, m) == LoadBytes(b) = Ok(m)

PathHoldsOneRecord ==
    dir[Path] # 0 => \E m \in Records : Holds(inodes[dir[Path]], m)
ReturnedHadRecordInstalled ==
    \A p \in Writers :
        writers[p].pc = "returned" => Holds(renamed[p].held, writers[p].obj)
RenameNeverFails == \A p \in Writers : writers[p].pc # "raised"

\* C21: when two processes call _StateFile.write on the same path with no
\* lock, the file at the path always holds the record of one of the calls or
\* the record there before, every call that returns had its own record in
\* the file it renamed into place, and no rename fails.
C21_ConcurrentWritesSafe ==
    /\ PathHoldsOneRecord
    /\ ReturnedHadRecordInstalled
    /\ RenameNeverFails


(***************************************************************************)
(* DeferredFunction: create pickles the function, args and kwargs; invoke  *)
(* unpickles them and calls the function.                                  *)
(***************************************************************************)
\* the functions a job defers, by the id their pickle (a reference to a
\* module's global) carries; all live in module UserModule
FunctionName == <<"total", "first", "lookup">>
Functions == DOMAIN FunctionName
UserModule == 1

\* function(*args, **kwargs) for
\*   def total(*args, **kwargs): return sum(args) + sum(kwargs.values())
\*   def first(*args, **kwargs): return args[0]
\*   def lookup(*args, **kwargs): return kwargs[<key 1>]
RECURSIVE SumValues(_)
SumValues(d) ==
    IF d = {} THEN 0
    ELSE LET q == CHOOSE x \in d : TRUE IN q[2].v + SumValues(d \ {q})

Apply(function, args, kwargs) ==
    CASE FunctionName[function] = "total" ->
            Ok(PyInt(Sum([i \in 1..Len(args) |-> args[i].v]) + SumValues(kwargs)))
      [] FunctionName[function] = "first" ->
            IF args = <<>> THEN Err("IndexError") ELSE Ok(args[1])
      [] FunctionName[function] = "lookup" ->
            IF \E q \in kwargs : q[1] = PyInt(1)
            THEN Ok((CHOOSE q \in kwargs : q[1] = PyInt(1))[2])
            ELSE Err("KeyError")

\* DeferredFunction.create(function, *args, **kwargs)
Create(function, args, kwargs) ==
    [function |-> dumps(Global(function)),
     args |-> dumps(Tuple(args)),
     kwargs |-> dumps(Dict(kwargs)),
     name |-> FunctionName[function],
     module |-> UserModule]

\* self.module.makeLoadable(): the module is importable afterwards
MakeLoadable(importable, module) == importable \cup {module}

\* invoke() of a record that kept references to the live argument objects
InvokeLiveObjects(df, importable, namespace) ==
    LET function == loads(df.function)
    IN IF namespace[function.v.v] = 0 THEN Err("AttributeError")
       ELSE Apply(namespace[function.v.v], live.args, live.kwargs)
InvokeWithoutKwargs(df, importable, namespace) ==
    LET function == loads(df.function)
        args == loads(df.args)
    IN IF namespace[function.v.v] = 0 THEN Err("AttributeError")
       ELSE Apply(namespace[function.v.v], args.v.v, {})
\* DeferredFunction.invoke() in a process that can import the modules
\* importable and in which the module's names denote namespace: the pickle
\* of the function is a reference to its name in its module, which loads
\* looks up; the pickle of args and kwargs holds their values
Invoke(df, importable, namespace) ==
    LET function == loads(df.function)
        args == loads(df.args)
        kwargs == loads(df.kwargs)
    IN IF df.module \notin MakeLoadable(importable, df.module) THEN Err("ImportError")
       ELSE IF function.err # "none" THEN function
       ELSE IF namespace[function.v.v] = 0 THEN Err("AttributeError")
       ELSE IF args.err # "none" THEN args
       ELSE IF kwargs.err # "none" THEN kwargs
       ELSE Apply(namespace[function.v.v], args.v.v, kwargs.v.v)

\* the modules a process can import before makeLoadable
Importable(p) == IF p = "registering" THEN {UserModule} ELSE {}

\* what the names of the user module denote in a process: in the process
\* that registered, the deferred function's name denotes the live function
\* (0: the name is gone); a process that imports the module anew gets the
\* functions as the module defines them
Namespace(p) ==
    [f \in Functions |->
        IF p = "registering" /\ f = call.function THEN live.function ELSE f]

\* a DeferredFunction (a namedtuple) as the value pickled in a state record
DFValue(df) ==
    Tuple(<<Bytes(df.function), Bytes(df.args), Bytes(df.kwargs),
            PyInt(CHOOSE f \in Functions : FunctionName[f] = df.name),
            PyInt(df.module)>>)
DFOfValue(x) ==
    [function |-> x.v[1].v, args |-> x.v[2].v, kwargs |-> x.v[3].v,
     name |-> FunctionName[x.v[4].v], module |-> x.v[5].v]

\* the state dictionary of the job: its deferredFunctions (attribute 1)
JobState(df) == Dict({<<PyInt(1), Tuple(<<DFValue(df)>>)>>})
DeferredOf(state) == (CHOOSE q \in state.v : q[1] = PyInt(1))[2].v

\* the job calls DeferredFunction.create
DfCreate ==
    /\ dfs["registering"] = NoDF
    /\ dfs' = [dfs EXCEPT !["registering"] = Create(live.function, live.args, live.kwargs)]
    /\ UNCHANGED <<call, live, stored, results>>
    /\ UNCHANGED notDeferred

\* the function is called directly: function(*args, **kwargs)
DfDirect ==
    /\ results["direct"] = Unset
    /\ results' = [results EXCEPT !["direct"] = Apply(call.function, call.args, call.kwargs)]
    /\ UNCHANGED <<call, live, dfs, stored>>
    /\ UNCHANGED notDeferred

\* the job's state, with the DeferredFunction, is written to its state file
DfPersist ==
    /\ dfs["registering"] # NoDF
    /\ stored = <<>>
    /\ stored' = dumps(JobState(dfs["registering"]))
    /\ UNCHANGED <<call, live, dfs, results>>
    /\ UNCHANGED notDeferred

\* another process loads the state file
DfReload ==
    /\ stored # <<>>
    /\ dfs["recovering"] = NoDF
    /\ dfs' = [dfs EXCEPT !["recovering"] = DFOfValue(DeferredOf(LoadBytes(stored).v)[1])]
    /\ UNCHANGED <<call, live, stored, results>>
    /\ UNCHANGED notDeferred

\* what the caller may do to the live objects after create: change the value
\* its first argument object holds, empty the keyword arguments, give the
\* function another body, or delete it from its module
Mutations(c) ==
    (IF c.args # <<>>
     THEN {[c EXCEPT !.args[1] = PyInt((@.v + 1) % (MaxVal + 1))]} ELSE {})
    \cup (IF c.kwargs # {} THEN {[c EXCEPT !.kwargs = {}]} ELSE {})
    \cup (IF c.function # 0
          THEN {[c EXCEPT !.function = 0],
                [c EXCEPT !.function = (@ % Len(FunctionName)) + 1]}
          ELSE {})

\* between create and the first invoke, the caller changes or destroys the
\* function or an argument object
DfMutate ==
    /\ dfs["registering"] # NoDF
    /\ \A p \in Processes : results[p] = Unset
    /\ live' \in Mutations(live)
    /\ UNCHANGED <<call, dfs, stored, results>>
    /\ UNCHANGED notDeferred

\* a process calls invoke() on the DeferredFunction it holds
DfInvoke(p) ==
    /\ dfs[p] # NoDF
    /\ results[p] = Unset
    /\ results' = [results EXCEPT ![p] = Invoke(dfs[p], Importable(p), Namespace(p))]
    /\ UNCHANGED <<call, live, dfs, stored>>
    /\ UNCHANGED notDeferred

InitDeferred ==
    /\ call \in [function : Functions,
                 args : UNION {[1..n -> {PyInt(x) : x \in 0..MaxVal}] : n \in 0..2},
                 kwargs : {d.v : d \in StateDicts}]
    /\ live = call
    /\ dfs = [p \in Processes |-> NoDF]
    /\ stored = <<>>
    /\ results = [p \in Processes \cup {"direct"} |-> Unset]
    /\ IdleStream
    /\ IdleState
    /\ IdleSweep
    /\ IdleContext
    /\ IdleWatch
    /\ IdleGlobal
    /\ IdleWriters
    /\ IdleShutdown

NextDeferred ==
    \/ DfCreate
    \/ DfDirect
    \/ DfMutate
    \/ DfPersist
    \/ DfReload
    \/ \E p \in Processes : DfInvoke(p)

SpecDeferred == InitDeferred /\ [][NextDeferred]_vars

\* C8: invoke() of the DeferredFunction created from a function and its
\* arguments returns what the direct call returns and raises what it raises,
\* in the process that created it and in a process that reloaded it from a
\* state record.
C8_InvokeIsDirectCall ==
    \A p \in Processes :
        (/\ results[p] # Unset
         /\ results["direct"] # Unset
         /\ Namespace(p)[call.function] = call.function) =>
            results[p] = results["direct"]

\* a recovering process has invoked a reloaded DeferredFunction made with
\* positional and keyword arguments, and the direct call was made too
C8_Witness ==
    /\ results["recovering"] # Unset
    /\ results["recovering"].err = "none"
    /\ results["direct"] # Unset
    /\ call.args # <<>> /\ call.kwargs # {}
    /\ FunctionName[call.function] = "total"

\* what function(*args, **kwargs) gives in process p for the arguments
\* create was given
CallIn(p) ==
    IF Namespace(p)[call.function] = 0 THEN Err("AttributeError")
    ELSE Apply(Namespace(p)[call.function], call.args, call.kwargs)

\* C19 as stated: whatever the caller does to the function and the argument
\* objects after create, invoke() returns or raises what the function as it
\* was at create does with the arguments as they were at create, and the
\* record a process holds is the one create made, before and after invoke.
C19_Original ==
    \A p \in Processes :
        /\ dfs[p] \in {NoDF, Create(call.function, call.args, call.kwargs)}
        /\ results[p] # Unset =>
              results[p] = Apply(call.function, call.args, call.kwargs)

\* C19, amended: the arguments are captured by value at create, the
\* function by reference: invoke() calls what the function's name denotes in
\* the invoking process, with the arguments as they were at create whatever
\* became of the argument objects; a process that imports the module anew
\* calls the function as the module defines it.  The record a process holds
\* is the one create made, before and after invoke.
C19_CapturedAtCreate ==
    \A p \in Processes :
        /\ dfs[p] \in {NoDF, Create(call.function, call.args, call.kwargs)}
        /\ results[p] # Unset => results[p] = CallIn(p)
        /\ results["recovering"] # Unset =>
              results["recovering"] = Apply(call.function, call.args, call.kwargs)

\* the first argument was changed, the keyword arguments emptied and the
\* function deleted after create, and then both processes have invoked
C19_Witness ==
    /\ live.function = 0
    /\ call.args # <<>> /\ live.args # call.args
    /\ call.kwargs # {} /\ live.kwargs = {}
    /\ \A p \in Processes : results[p] # Unset
    /\ results["recovering"].err = "none"

\* _load(fileName) run in one piece on the file system as it stands
LoadFile(fileName) ==
    IF dir[fileName] = 0 THEN Err("IOError") ELSE LoadBytes(inodes[dir[fileName]])

\* C2: whatever _load returns while write runs, or after write was killed at
\* any step, is a whole record: the one installed at the path when _load
\* opened it, which is the record before the running write or, once renamed,
\* the new one; with no record installed yet, the open fails (no such file).
C2_LoadNeverTorn ==
    rd.pc = "done" =>
        rd.res = (IF rd.want = None THEN Err("IOError") ELSE Ok(rd.want))

\* _load returned the previous record after the new one had been renamed in,
\* having opened the file while the write was under way
C2_Witness ==
    /\ rd.pc = "done"
    /\ rd.res.err = "none"
    /\ rd.want # installed

\* C9: when write(path) of the _StateFile built from m returns, _load(path)
\* gives an object whose attributes are exactly m, and path + '.tmp' is gone.
C9_RoundTrip ==
    wr.pc = "returned" =>
        /\ LoadFile(Path) = Ok(wr.obj)
        /\ dir[Path \o <<".tmp">>] = 0

\* write returned for a mapping of two attributes, over another record
C9_Witness ==
    /\ wr.pc = "returned"
    /\ Cardinality(wr.obj.v) = 2
    /\ LoadFile(Path).v = wr.obj

(***************************************************************************)
(* SpecLoad: _load of a file that is absent, whole, cut short (a proper    *)
(* prefix of a record's bytes) or corrupt (one byte of a record's bytes    *)
(* replaced by another).                                                   *)
(***************************************************************************)
ByteValues == {Op[o] : o \in DOMAIN Op} \cup Keys \cup (0..MaxVal)

Truncations(b) == {SubSeq(b, 1, n) : n \in 0..(Len(b) - 1)}
Corruptions(b) ==
    {[b EXCEPT ![i] = x] : i \in 1..Len(b), x \in ByteValues} \ {b}

InitLoad ==
    /\ installed \in StateDicts
    /\ fault \in {"none", "absent", "truncated", "corrupt"}
    /\ dir = [n \in Names |-> IF n = Path /\ fault # "absent" THEN 1 ELSE 0]
    /\ \E c \in (CASE fault = "none" -> {dumps(installed)}
                   [] fault = "absent" -> {<<>>}
                   [] fault = "truncated" -> Truncations(dumps(installed))
                   [] fault = "corrupt" -> Corruptions(dumps(installed))) :
          inodes = [i \in 1..MaxInodes |-> IF i = 1 THEN c ELSE <<>>]
    /\ wr = WrIdle
    /\ rd = RdIdle
    /\ IdleStream
    /\ IdleSweep
    /\ IdleDeferred
    /\ IdleContext
    /\ IdleWatch
    /\ IdleGlobal
    /\ IdleWriters
    /\ IdleShutdown

NextLoad ==
    \/ RdOpen
    \/ RdRead
    \/ RdReturn

SpecLoad == InitLoad /\ [][NextLoad]_vars

DeserializationErrors == {"EOFError", "UnpicklingError", "TypeError", "AssertionError"}

\* C10 as stated: _load fails on an absent, a truncated and a corrupt file,
\* and on the last two with another error than on an absent one.
C10_Original ==
    rd.pc = "done" /\ fault # "none" =>
        /\ rd.res.err # "none"
        /\ fault # "absent" => rd.res.err # "IOError"

\* C10 amended: _load fails with IOError exactly when the file is absent, and
\* with a deserialization error when it is truncated or when the corrupt
\* bytes are no pickle of a dict; corrupt bytes that still are the pickle of
\* a dict load, without error, as the record they encode.
C10_LoadFailures ==
    rd.pc = "done" =>
        /\ (fault = "absent") <=> (rd.res.err = "IOError")
        /\ fault = "truncated" => rd.res.err \in {"EOFError", "UnpicklingError"}
        /\ fault = "corrupt" =>
              \/ rd.res.err \in DeserializationErrors
              \/ rd.res = loads(inodes[1]) /\ rd.res.err = "none" /\ rd.res.v.t = "dict"
        /\ fault = "none" => rd.res = Ok(installed)

\* _load of a truncated, non-empty file has raised
C10_Witness ==
    /\ rd.pc = "done"
    /\ fault = "truncated"
    /\ rd.buf # <<>>
    /\ rd.res.err = "UnpicklingError"

(***************************************************************************)
(* The file store of one job as its user sees it: the open() context, the  *)
(* temp file methods, _resolveAbsoluteLocalPath, importFile and exportFile.*)
(* A path is the sequence of its components; an absolute path starts with  *)
(* the component "/".                                                      *)
(***************************************************************************)
\* self.localTempDir = os.path.abspath(localTempDir)
LocalTempDir == <<"/", "work", "job">>

\* the names tempfile can draw: prefix "t" for mkdtemp, prefix "tmp" and
\* suffix ".tmp" for mkstemp, around the random part
DirNames == {"t0", "t1"}
FileNames == {"tmp0.tmp", "tmp1.tmp"}

\* os.path.isabs
IsAbs(path) == path # <<>> /\ path[1] = "/"

\* os.path.normpath of an absolute path: "." is dropped, ".." drops the
\* component before it, and stays at the root
RECURSIVE NormFrom(_, _)
NormFrom(done, todo) ==
    IF todo = <<>> THEN done
    ELSE IF Head(todo) = "." THEN NormFrom(done, Tail(todo))
    ELSE IF Head(todo) = ".."
    THEN NormFrom(IF Len(done) > 1 THEN SubSeq(done, 1, Len(done) - 1) ELSE done,
                  Tail(todo))
    ELSE NormFrom(Append(done, Head(todo)), Tail(todo))

\* os.path.abspath of an absolute path
AbsPath(path) == NormFrom(<<"/">>, Tail(path))

\* os.path.join(a, b)
Join(a, b) == IF IsAbs(b) THEN b ELSE a \o b

\* the file a path denotes lies inside directory root
Under(path, root) ==
    LET n == AbsPath(path)
    IN Len(n) > Len(root) /\ SubSeq(n, 1, Len(root)) = root

\* tempfile.mkdtemp / mkstemp(dir=self.localTempDir): the names it may come
\* up with, those that are not in the directory; it creates one of them
FreeNames(names) == IF tempRoot.exists THEN names \ tempRoot.names ELSE {}

Hand(op, path, exists) ==
    Append(handed, [op |-> op, path |-> path, ctx |-> ctx, exists |-> exists])

\* with fileStore.open(job): the scope is entered
ContextEnter ==
    /\ ctx = "Open"
    /\ ctx' = "Running"
    /\ UNCHANGED <<tempRoot, thr, handed, resolved, passed>>
    /\ UNCHANGED notContext

\* the scope is left: finalization, the job's temp directory is torn down
ContextExit ==
    /\ ctx = "Running"
    /\ ctx' = "Closed"
    /\ tempRoot' = [exists |-> FALSE, names |-> {}]
    /\ UNCHANGED <<thr, handed, resolved, passed>>
    /\ UNCHANGED notContext

\* getLocalTempDir(), called by thread t
GetLocalTempDir(t) ==
    /\ thr[t].pc = "idle"
    /\ Len(handed) < MaxHanded
    /\ \E name \in FreeNames(DirNames) :
         /\ tempRoot' = [tempRoot EXCEPT !.names = @ \cup {name}]
         /\ handed' = Hand("getLocalTempDir", AbsPath(Join(LocalTempDir, <<name>>)), TRUE)
    /\ UNCHANGED <<ctx, thr, resolved, passed>>
    /\ UNCHANGED notContext

\* handle, tmpFile = tempfile.mkstemp(...); os.close(handle)
MkTempFile(name) ==
    /\ name \in FreeNames(FileNames)
    /\ tempRoot' = [tempRoot EXCEPT !.names = @ \cup {name}]

\* getLocalTempFile(), called by thread t
GetLocalTempFile(t) ==
    /\ thr[t].pc = "idle"
    /\ Len(handed) < MaxHanded
    /\ \E name \in FileNames :
         /\ MkTempFile(name)
         /\ handed' = Hand("getLocalTempFile", AbsPath(Join(LocalTempDir, <<name>>)), TRUE)
    /\ UNCHANGED <<ctx, thr, resolved, passed>>
    /\ UNCHANGED notContext

\* getLocalTempFileName(), first line: tempFile = self.getLocalTempFile()
GetLocalTempFileNameCreate(t) ==
    /\ thr[t].pc = "idle"
    /\ Len(handed) < MaxHanded
    /\ \E name \in FileNames :
         /\ MkTempFile(name)
         /\ thr' = [thr EXCEPT ![t] = [pc |-> "created",
                       tempFile |-> AbsPath(Join(LocalTempDir, <<name>>))]]
    /\ UNCHANGED <<ctx, handed, resolved, passed>>
    /\ UNCHANGED notContext

GetLocalTempFileNameKeepsFile(t) ==
    /\ thr[t].pc = "created"
    /\ thr' = [thr EXCEPT ![t] = [pc |-> "idle", tempFile |-> NoPath]]
    /\ handed' = Hand("getLocalTempFileName", thr[t].tempFile,
                      tempRoot.exists /\ thr[t].tempFile[Len(thr[t].tempFile)] \in tempRoot.names)
    /\ UNCHANGED <<ctx, tempRoot, resolved, passed>>
    /\ UNCHANGED notContext
\* getLocalTempFileName(), the rest: os.remove(tempFile); return tempFile.
\* os.remove raises when the file is gone with the directory.
GetLocalTempFileNameRemove(t) ==
    /\ thr[t].pc = "created"
    /\ thr' = [thr EXCEPT ![t] = [pc |-> "idle", tempFile |-> NoPath]]
    /\ LET name == thr[t].tempFile[Len(thr[t].tempFile)]
       IN IF tempRoot.exists /\ name \in tempRoot.names
          THEN /\ tempRoot' = [tempRoot EXCEPT !.names = @ \ {name}]
               /\ handed' = Hand("getLocalTempFileName", thr[t].tempFile, FALSE)
          ELSE UNCHANGED <<tempRoot, handed>>
    /\ UNCHANGED <<ctx, resolved, passed>>
    /\ UNCHANGED notContext

\* the caller creates the file at a name getLocalTempFileName gave it
CallerCreates(i) ==
    /\ i \in 1..Len(handed)
    /\ handed[i].op = "getLocalTempFileName"
    /\ tempRoot.exists
    /\ handed[i].path[Len(handed[i].path)] \notin tempRoot.names
    /\ tempRoot' = [tempRoot EXCEPT !.names = @ \cup {handed[i].path[Len(handed[i].path)]}]
    /\ UNCHANGED <<ctx, thr, handed, resolved, passed>>
    /\ UNCHANGED notContext

\* the paths a caller may pass to _resolveAbsoluteLocalPath
PathParts == {"a", ".."}
RelativePaths == UNION {[1..n -> PathParts] : n \in 1..2}
AbsolutePaths == {<<"/">> \o p : p \in RelativePaths}

ResolveAlwaysJoins(filePath) == LocalTempDir \o filePath
\* _resolveAbsoluteLocalPath(filePath)
ResolveAbsoluteLocalPath(filePath) ==
    IF IsAbs(filePath) THEN AbsPath(filePath)
    ELSE Join(LocalTempDir, filePath)

Resolve(filePath) ==
    /\ resolved' = [filePath |-> filePath, path |-> ResolveAbsoluteLocalPath(filePath)]
    /\ UNCHANGED <<ctx, tempRoot, thr, handed, passed>>
    /\ UNCHANGED notContext

\* what jobStore.importFile(srcUrl, sharedFileName=...) may do: return the
\* FileID of the imported file, or None for a shared file, or raise
Urls == {1, 2}
SharedFileNames == {None, Bytes(<<1>>)}
ImportOutcomes == {Ok(PyInt(1)), Ok(PyInt(2)), Ok(None), Err("IOError")}

\* importFile(srcUrl, sharedFileName)
ImportFile(srcUrl, sharedFileName) ==
    /\ \E r \in ImportOutcomes :
         passed' = [op |-> "importFile", args |-> <<PyInt(srcUrl), sharedFileName>>,
                    ctx |-> ctx,
                    calls |-> <<[op |-> "importFile",
                                 args |-> <<PyInt(srcUrl), sharedFileName>>]>>,
                    storeRes |-> r, res |-> r]
    /\ UNCHANGED <<ctx, tempRoot, thr, handed, resolved>>
    /\ UNCHANGED notContext

\* exportFile(jobStoreFileID, dstUrl)
ExportFile(jobStoreFileID, dstUrl) ==
    /\ passed' = [op |-> "exportFile", args |-> <<PyInt(jobStoreFileID), PyInt(dstUrl)>>,
                  ctx |-> ctx, calls |-> <<>>, storeRes |-> Unset,
                  res |-> Err("NotImplementedError")]
    /\ UNCHANGED <<ctx, tempRoot, thr, handed, resolved>>
    /\ UNCHANGED notContext

InitContext ==
    /\ IdleContext
    /\ IdleStream
    /\ IdleState
    /\ IdleSweep
    /\ IdleDeferred
    /\ IdleWatch
    /\ IdleGlobal
    /\ IdleWriters
    /\ IdleShutdown

NextContext ==
    \/ ContextEnter
    \/ ContextExit
    \/ \E t \in Threads : GetLocalTempDir(t)
    \/ \E t \in Threads : GetLocalTempFile(t)
    \/ \E t \in Threads : GetLocalTempFileNameCreate(t)
    \/ \E t \in Threads : GetLocalTempFileNameRemove(t)
    \/ \E i \in 1..MaxHanded : CallerCreates(i)
    \/ \E filePath \in RelativePaths \cup AbsolutePaths : Resolve(filePath)

SpecContext == InitContext /\ [][NextContext]_vars

\* the job uses importFile and exportFile, inside the open() scope or not
NextPass ==
    \/ ContextEnter
    \/ ContextExit
    \/ \E srcUrl \in Urls, sharedFileName \in SharedFileNames :
           ImportFile(srcUrl, sharedFileName)
    \/ \E jobStoreFileID \in 1..2, dstUrl \in Urls : ExportFile(jobStoreFileID, dstUrl)

SpecPass == InitContext /\ [][NextPass]_vars

\* C11: every file operation performed was called while the context was
\* Running; outside the open() scope an operation fails as a usage error
\* and hands out no path, resolves no path and calls no backing store.
C11_OnlyWhileRunning ==
    /\ \A i \in 1..Len(handed) : handed[i].ctx = "Running"
    /\ passed.calls # <<>> => passed.ctx = "Running"

\* C14: importFile and exportFile each make exactly one call of the same
\* name on the job store, with the arguments they were given, and return or
\* raise what that call returned or raised.
C14_PassThrough ==
    passed.op # "" =>
        /\ passed.calls = <<[op |-> passed.op, args |-> passed.args]>>
        /\ passed.res = passed.storeRes

\* the last component of a path
BaseName(path) == path[Len(path)]

\* C16 as stated: every path handed out, the result of
\* _resolveAbsoluteLocalPath for any relative path included, lies under
\* localTempDir; an absolute path is returned as the path given; the paths
\* of getLocalTempDir and getLocalTempFile calls are pairwise distinct.
C16_Original ==
    /\ \A i \in 1..Len(handed) : Under(handed[i].path, LocalTempDir)
    /\ resolved # NotResolved =>
          IF IsAbs(resolved.filePath)
          THEN AbsPath(resolved.path) = AbsPath(resolved.filePath)
          ELSE Under(resolved.path, LocalTempDir)
    /\ \A i, j \in 1..Len(handed) :
          (/\ i # j
           /\ handed[i].op \in {"getLocalTempDir", "getLocalTempFile"}
           /\ handed[j].op \in {"getLocalTempDir", "getLocalTempFile"})
          => handed[i].path # handed[j].path

\* C16, amended: every path handed out by getLocalTempDir, getLocalTempFile
\* and getLocalTempFileName is an entry of localTempDir; while the context
\* is open the entries of the first two exist, and their paths are pairwise
\* distinct; after the temp directory is torn down nothing of them is left.
\* _resolveAbsoluteLocalPath returns an absolute path as the (normalised)
\* path given, and a relative path joined to localTempDir, which lies under
\* localTempDir when the path has no ".." component.
C16_PathsUnderTempDir ==
    /\ \A i \in 1..Len(handed) :
          /\ Under(handed[i].path, LocalTempDir)
          /\ Len(handed[i].path) = Len(LocalTempDir) + 1
          /\ (handed[i].op # "getLocalTempFileName" /\ ctx # "Closed")
                => BaseName(handed[i].path) \in tempRoot.names
    /\ ctx = "Closed" => tempRoot.names = {}
    /\ resolved # NotResolved =>
          IF IsAbs(resolved.filePath)
          THEN AbsPath(resolved.path) = AbsPath(resolved.filePath)
          ELSE /\ resolved.path = LocalTempDir \o resolved.filePath
               /\ (\A k \in 1..Len(resolved.filePath) : resolved.filePath[k] # "..")
                     => Under(resolved.path, LocalTempDir)
    /\ \A i, j \in 1..Len(handed) :
          (/\ i # j
           /\ handed[i].op \in {"getLocalTempDir", "getLocalTempFile"}
           /\ handed[j].op \in {"getLocalTempDir", "getLocalTempFile"})
          => handed[i].path # handed[j].path

\* two directories and a file were handed out in the open scope, and a
\* relative path below the temp directory was resolved
C16_Witness ==
    /\ ctx = "Running"
    /\ Len(handed) = 3
    /\ handed[1].op = "getLocalTempDir"
    /\ handed[2].op = "getLocalTempDir"
    /\ handed[3].op = "getLocalTempFile"
    /\ resolved.filePath = <<"a", "a">>

Listeners == {"counts", "raises"}

\* onWrite(listener)
OnWrite(w, listener) ==
    [w EXCEPT !.writeListeners = Append(@, listener), !.counts = Append(@, 0)]

\* for listener in self.writeListeners: listener(len(data)), from listener
\* number i on: the calls made, until one raises
RECURSIVE NotifyFrom(_, _, _)
NotifyFrom(w, i, n) ==
    IF i > Len(w.writeListeners) THEN <<>>
    ELSE <<[call |-> "listener", listener |-> i, n |-> n]>>
         \o (IF w.writeListeners[i] = "raises" THEN <<>> ELSE NotifyFrom(w, i + 1, n))

\* a write that notifies the listeners before it writes
WriteNotifiesFirst(w, data, ok) ==
    NotifyFrom(w, 1, Len(data))
    \o <<[call |-> "backingStream.write", listener |-> 0, n |-> Len(data)]>>
\* write(data): what it does, in order; the backing stream takes the data
\* (ok) or raises
Write(w, data, ok) ==
    <<[call |-> "backingStream.write", listener |-> 0, n |-> Len(data)]>>
    \o (IF ok THEN NotifyFrom(w, 1, Len(data)) ELSE <<>>)

\* the stream after the calls of a write
After(w, events, ok) ==
    [w EXCEPT !.backing = IF ok THEN @ + events[1].n ELSE @,
              !.counts = [i \in DOMAIN @ |->
                  IF /\ w.writeListeners[i] = "counts"
                     /\ \E k \in DOMAIN events : events[k].listener = i
                  THEN @[i] + events[1].n ELSE @[i]],
              !.writes = @ + 1]

\* stream.onWrite(listener)
WatchOnWrite(listener) ==
    /\ Len(watch.writeListeners) < MaxListeners
    /\ watch' = OnWrite(watch, listener)
    /\ UNCHANGED heard
    /\ UNCHANGED notWatch

\* stream.write(data)
WatchWrite(data) ==
    /\ watch.writes < MaxWrites
    /\ \E ok \in BOOLEAN :
         LET events == Write(watch, data, ok)
             last == events[Len(events)]
         IN /\ heard' = [data |-> data, events |-> events,
                         raised |-> IF ~ok THEN "backingStream"
                                    ELSE IF /\ last.listener # 0
                                            /\ watch.writeListeners[last.listener] = "raises"
                                    THEN "listener" ELSE "",
                         listeners |-> watch.writeListeners,
                         before |-> watch.counts,
                         after |-> After(watch, events, ok).counts]
            /\ watch' = After(watch, events, ok)
    /\ UNCHANGED notWatch

InitWatch ==
    /\ IdleWatch
    /\ IdleStream
    /\ IdleState
    /\ IdleSweep
    /\ IdleDeferred
    /\ IdleContext
    /\ IdleGlobal
    /\ IdleWriters
    /\ IdleShutdown

NextWatch ==
    \/ \E listener \in Listeners : WatchOnWrite(listener)
    \/ \E data \in Chunks : WatchWrite(data)

SpecWatch == InitWatch /\ [][NextWatch]_vars

\* the listeners a write called, in the order of the calls
Called(events) == [k \in 1..(Len(events) - 1) |-> events[k + 1].listener]

OtherJob == 2

\* with self.jobStore.writeFileStream(<owner>) as (backingStream, fileStoreID):
\* the job store makes a new file, registered under the owner it is given
GlobalWriteStream(cleanup) ==
    /\ task = "running"
    /\ \E k \in GlobalFiles :
         /\ jobStore[k].asked = ""
         /\ \A j \in GlobalFiles : j < k => jobStore[j].asked # ""
         /\ jobStore' = [jobStore EXCEPT ![k] =
                [present |-> TRUE, owner |-> CleanupOwner(cleanup),
                 asked |-> IF cleanup THEN "cleanup" ELSE "keep", deleted |-> FALSE]]
         /\ files' = [files EXCEPT ![<<"store", k>>] = "original"]
    /\ UNCHANGED <<task, local, filesToDelete>>
    /\ UNCHANGED notGlobal

\* a readGlobalFile that hands out a link whenever it can
ReadNodeAlwaysLinks(key, mutable, how, i) ==
    IF how = "copy" THEN <<"copy", i>> ELSE <<how, key>>
\* the file readGlobalFile number i returns: a private copy when mutable,
\* else a copy, or a link to the cached copy or to the job store's file
ReadNode(key, mutable, how, i) ==
    IF mutable \/ how = "copy" THEN <<"copy", i>> ELSE <<how, key>>

\* readGlobalFile(fileStoreID, mutable=...), called by job t
ReadGlobalFile(t, key, mutable, how) ==
    /\ t = JobStoreID => (task = "running" /\ key \notin filesToDelete)
    /\ jobStore[key].present
    /\ Len(local) < MaxReads
    /\ LET node == ReadNode(key, mutable, how, Len(local) + 1)
       IN /\ local' = Append(local, [job |-> t, key |-> key, mutable |-> mutable,
                                     node |-> node, modified |-> FALSE,
                                     removed |-> FALSE])
          /\ files' = IF files[node] = "absent"
                      THEN [files EXCEPT ![node] = files[<<"store", key>>]]
                      ELSE files
    /\ UNCHANGED <<jobStore, task, filesToDelete>>
    /\ UNCHANGED notGlobal

\* the caller of a mutable read changes the file it was given
ModifyLocal(i) ==
    /\ i \in 1..Len(local)
    /\ local[i].mutable
    /\ ~local[i].removed
    /\ local' = [local EXCEPT ![i].modified = TRUE]
    /\ files' = [files EXCEPT ![local[i].node] = "changed"]
    /\ UNCHANGED <<jobStore, task, filesToDelete>>
    /\ UNCHANGED notGlobal

\* a deleteGlobalFile that deletes from the job store at once
DeleteGlobalFileAtOnce(key) ==
    /\ task = "running"
    /\ jobStore[key].present
    /\ jobStore' = [jobStore EXCEPT ![key].present = FALSE, ![key].deleted = TRUE]
    /\ UNCHANGED <<task, local, files, filesToDelete>>
    /\ UNCHANGED notGlobal
\* deleteGlobalFile(fileStoreID): the job's local copies go, the file is
\* put down for deletion from the job store
DeleteGlobalFile(key) ==
    /\ task = "running"
    /\ jobStore[key].present
    /\ key \notin filesToDelete
    /\ local' = [i \in DOMAIN local |->
                    IF local[i].job = JobStoreID /\ local[i].key = key
                    THEN [local[i] EXCEPT !.removed = TRUE] ELSE local[i]]
    /\ filesToDelete' = filesToDelete \cup {key}
    /\ jobStore' = [jobStore EXCEPT ![key].deleted = TRUE]
    /\ UNCHANGED <<task, files>>
    /\ UNCHANGED notGlobal

\* the job's run method returns
RunCompletes ==
    /\ task = "running"
    /\ task' = "runDone"
    /\ UNCHANGED <<jobStore, local, files, filesToDelete>>
    /\ UNCHANGED notGlobal

\* finalization after run: the files put down for deletion are deleted from
\* the job store
Finalize ==
    /\ task = "runDone"
    /\ task' = "finalized"
    /\ jobStore' = [k \in GlobalFiles |->
                      IF k \in filesToDelete
                      THEN [jobStore[k] EXCEPT !.present = FALSE] ELSE jobStore[k]]
    /\ UNCHANGED <<local, files, filesToDelete>>
    /\ UNCHANGED notGlobal

\* the worker dies before finalization
TaskCrashes ==
    /\ task \in {"running", "runDone"}
    /\ task' = "crashed"
    /\ UNCHANGED <<jobStore, local, files, filesToDelete>>
    /\ UNCHANGED notGlobal

\* the job's successors have all finished: the job is removed from the job
\* store, and with it the files registered under its ID
SuccessorsFinish ==
    /\ task = "finalized"
    /\ task' = "done"
    /\ jobStore' = [k \in GlobalFiles |->
                      IF jobStore[k].owner = JobStoreID
                      THEN [jobStore[k] EXCEPT !.present = FALSE] ELSE jobStore[k]]
    /\ UNCHANGED <<local, files, filesToDelete>>
    /\ UNCHANGED notGlobal

InitGlobal ==
    /\ jobStore = [k \in GlobalFiles |->
                     IF k = 1 THEN [present |-> TRUE, owner |-> 0, asked |-> "input",
                                    deleted |-> FALSE]
                     ELSE NoFile]
    /\ task = "running"
    /\ local = <<>>
    /\ files = [n \in FileNodes |-> IF n = <<"store", 1>> THEN "original" ELSE "absent"]
    /\ filesToDelete = FilesToDeleteInit
    /\ IdleStream
    /\ IdleState
    /\ IdleSweep
    /\ IdleDeferred
    /\ IdleContext
    /\ IdleWatch
    /\ IdleWriters
    /\ IdleShutdown

\* the job and another job read global files, and change the files that
\* mutable reads gave them
NextRead ==
    \/ \E cleanup \in BOOLEAN : GlobalWriteStream(cleanup)
    \/ \E t \in {JobStoreID, OtherJob}, key \in GlobalFiles, mutable \in BOOLEAN,
          how \in {"copy", "cache", "store"} : ReadGlobalFile(t, key, mutable, how)
    \/ \E i \in 1..MaxReads : ModifyLocal(i)

SpecRead == InitGlobal /\ [][NextRead]_vars

\* the job writes, copies and deletes global files, and comes to its end
NextGlobal ==
    \/ \E cleanup \in BOOLEAN : GlobalWriteStream(cleanup)
    \/ \E key \in GlobalFiles, mutable \in BOOLEAN :
          ReadGlobalFile(JobStoreID, key, mutable, "copy")
    \/ \E key \in GlobalFiles : DeleteGlobalFile(key)
    \/ RunCompletes
    \/ Finalize
    \/ TaskCrashes
    \/ SuccessorsFinish

SpecGlobal == InitGlobal /\ [][NextGlobal]_vars

\* C12: whatever is done to the file a mutable read returned, the job
\* store's file keeps its content, and so does the file of every other read
\* of the ID, mutable or not, made before or after, by this job or another.
C12_MutableReadIsPrivate ==
    /\ \A k \in GlobalFiles : jobStore[k].asked # "" => files[<<"store", k>>] = "original"
    /\ \A i \in 1..Len(local) :
          /\ ~local[i].modified => files[local[i].node] = "original"
          /\ local[i].mutable =>
                \A j \in 1..Len(local) : j # i => local[j].node # local[i].node

\* a mutable read of file 1 was changed, and a later read of file 1 by the
\* other job got a link to the job store's file
C12_Witness ==
    /\ Len(local) = 2
    /\ local[1].key = 1 /\ local[1].mutable /\ local[1].modified
    /\ files[local[1].node] = "changed"
    /\ local[2].key = 1 /\ local[2].job = OtherJob /\ local[2].node = <<"store", 1>>

\* C13: a file written with cleanup=True is registered under the job's ID
\* and, left alone by deleteGlobalFile, is in the job store until the job
\* and its successors have finished, and gone from then on; a file written
\* with cleanup=False is registered under no job and stays, also after the
\* job and its successors have finished, until deleteGlobalFile deletes it.
C13_CleanupScheduling ==
    \A k \in GlobalFiles :
        /\ jobStore[k].asked = "cleanup" =>
              /\ jobStore[k].owner = JobStoreID
              /\ task = "done" => ~jobStore[k].present
              /\ ~jobStore[k].deleted => (jobStore[k].present <=> task # "done")
        /\ jobStore[k].asked = "keep" =>
              /\ jobStore[k].owner = 0
              /\ ~jobStore[k].deleted => jobStore[k].present

\* the job and its successors have finished: the file written with
\* cleanup=True is gone, the one written with cleanup=False is there
C13_Witness ==
    /\ task = "done"
    /\ \E k \in GlobalFiles : jobStore[k].asked = "cleanup" /\ ~jobStore[k].present
    /\ \E k \in GlobalFiles :
          jobStore[k].asked = "keep" /\ jobStore[k].present /\ ~jobStore[k].deleted

\* C18: after deleteGlobalFile(id) the job has no local copy of id left,
\* and the file is deleted from the job store only by the finalization that
\* follows run: while the job runs, and when it has crashed, every file it
\* was handed or wrote is still in the job store.
C18_DeleteAfterRun ==
    /\ \A k \in GlobalFiles :
          (jobStore[k].asked # "" /\ task \in {"running", "runDone", "crashed"})
             => jobStore[k].present
    /\ \A i \in 1..Len(local) :
          (local[i].job = JobStoreID /\ jobStore[local[i].key].deleted)
             => local[i].removed

\* the job called deleteGlobalFile on its input, of which it had a local
\* copy, and crashed: the file is in the job store
C18_Witness ==
    /\ task = "crashed"
    /\ 1 \in filesToDelete
    /\ jobStore[1].present
    /\ \E i \in 1..Len(local) : local[i].key = 1 /\ local[i].removed

(***************************************************************************)
(* shutdownFileStore(workflowDir, workflowID)                              *)
(***************************************************************************)
WorkflowDirs == {<<"/", "node1">>, <<"/", "node2">>}
WorkflowIDs == {"a", "b"}

\* toil.common.cacheDirName(workflowID): one name, made from the ID
CacheDirName(workflowID) == "cache-" \o workflowID
\* cacheDir = os.path.join(workflowDir, cacheDirName(workflowID))
CacheDir(workflowDir, workflowID) == Join(workflowDir, <<CacheDirName(workflowID)>>)
CacheDirs == {CacheDir(d, i) : d \in WorkflowDirs, i \in WorkflowIDs}

\* os.path.exists(path)
Exists(disk, path) == path \in disk

ShutdownCall(cls, dir_) == [cls |-> cls, dir_ |-> dir_]

ShutdownFileStoreCallsBoth(workflowDir, workflowID, disk) ==
    LET cacheDir == CacheDir(workflowDir, workflowID)
    IN (IF Exists(disk, cacheDir)
        THEN <<ShutdownCall("CachingFileStore", cacheDir)>> ELSE <<>>)
       \o <<ShutdownCall("NonCachingFileStore", workflowDir)>>
\* the shutdown routines one shutdownFileStore call runs, in order
ShutdownFileStoreCalls(workflowDir, workflowID, disk) ==
    LET cacheDir == CacheDir(workflowDir, workflowID)
    IN IF Exists(disk, cacheDir)
       THEN <<ShutdownCall("CachingFileStore", cacheDir)>>
       ELSE <<ShutdownCall("NonCachingFileStore", workflowDir)>>

\* a run of the workflow with caching makes its cache directory on the node
CachedRunStarts(workflowDir, workflowID) ==
    /\ CacheDir(workflowDir, workflowID) \notin onDisk
    /\ onDisk' = onDisk \cup {CacheDir(workflowDir, workflowID)}
    /\ UNCHANGED shut
    /\ UNCHANGED notShutdown

\* shutdownFileStore(workflowDir, workflowID); the routine it calls is
\* abstract here and may leave the directory it was given or remove it with
\* all that is in it
ShutdownFileStoreRun(workflowDir, workflowID, removes) ==
    /\ Len(shut) < MaxShutdowns
    /\ LET made == ShutdownFileStoreCalls(workflowDir, workflowID, onDisk)
       IN /\ shut' = Append(shut, [workflowDir |-> workflowDir,
                                   workflowID |-> workflowID,
                                   existed |-> CacheDir(workflowDir, workflowID) \in onDisk,
                                   calls |-> made])
          /\ onDisk' = IF removes
                       THEN {q \in onDisk : \A i \in 1..Len(made) :
                                ~(Len(q) >= Len(made[i].dir_)
                                  /\ SubSeq(q, 1, Len(made[i].dir_)) = made[i].dir_)}
                       ELSE onDisk
    /\ UNCHANGED notShutdown

InitShutdown ==
    /\ onDisk \in SUBSET CacheDirs
    /\ shut = <<>>
    /\ IdleState
    /\ IdleStream
    /\ IdleSweep
    /\ IdleDeferred
    /\ IdleContext
    /\ IdleWatch
    /\ IdleGlobal
    /\ IdleWriters

NextShutdown ==
    \/ \E d \in WorkflowDirs, i \in WorkflowIDs : CachedRunStarts(d, i)
    \/ \E d \in WorkflowDirs, i \in WorkflowIDs, removes \in BOOLEAN :
          ShutdownFileStoreRun(d, i, removes)

SpecShutdown == InitShutdown /\ [][NextShutdown]_vars

\* C22: every shutdownFileStore call runs exactly one shutdown routine:
\* CachingFileStore.shutdown on the workflow's cache directory when that
\* directory existed under workflowDir at the call, NonCachingFileStore.shutdown
\* on workflowDir when it did not; never both and never neither.
C22_ExactlyOneShutdown ==
    \A n \in 1..Len(shut) :
        LET s == shut[n]
        IN /\ Len(s.calls) = 1
           /\ s.existed =>
                s.calls[1] = [cls |-> "CachingFileStore",
                              dir_ |-> s.workflowDir \o <<"cache-" \o s.workflowID>>]
           /\ ~s.existed =>
                s.calls[1] = [cls |-> "NonCachingFileStore", dir_ |-> s.workflowDir]

\* one call found the cache directory and another, later, did not
C22_Witness ==
    \E n, k \in 1..Len(shut) :
        /\ n < k
        /\ shut[n].existed /\ shut[n].calls[1].cls = "CachingFileStore"
        /\ ~shut[k].existed /\ shut[k].calls[1].cls = "NonCachingFileStore"
====
